---- MODULE Spec2Model ----
(***************************************************************************)
(* Project Store Service (src/backend/server.js): an Express application   *)
(* that keeps one collection of project records in data/projects.json.     *)
(* Every route handler is synchronous JavaScript: it loads the whole file  *)
(* (readProjects), computes, and rewrites the whole file (writeProjects)   *)
(* before it returns to the event loop.  A handler is therefore one atomic *)
(* action.  Whether another request has already been received and waits    *)
(* for the event loop while a handler runs is an input of the handler      *)
(* (pending), recorded with its response.                                  *)
(*                                                                         *)
(* A JavaScript object is a function from property names to values; the    *)
(* two score properties are named investmentScore and transportScore here. *)
(* Timestamps are clock readings in milliseconds (toISOString keeps        *)
(* millisecond resolution and is injective on them).                       *)
(***************************************************************************)
EXTENDS Integers, Sequences, FiniteSets, TLC

VARIABLES
    disk,        \* data/projects.json
    now,         \* the system clock
    nextUuid,    \* how many identifiers uuidv4 has produced, plus one
    last,        \* the request handled last and its response
    nCreated,    \* history: number of creates answered 201
    nDeleted,    \* history: number of deletes answered 200
    fromEmpty,   \* history: the service started on an empty collection
    failed,      \* history: some save step has failed
    lost,        \* history: an acknowledged change was overwritten
    writes       \* creates and updates that reached their save step

vars == <<disk, now, nextUuid, last, nCreated, nDeleted, fromEmpty, failed,
          lost, writes>>

(* ------------------------------ bounds --------------------------------- *)

\* creates and updates that get as far as their save step (a delete that
\* gets there needs a record to remove, so deletes bound themselves)
MaxWrites == 2
\* last clock reading considered
MaxClock == 1

(* ------------------------- values and helpers -------------------------- *)

\* uuidv4(): the n-th identifier drawn by this process; distinct draws are
\* distinct strings and none is empty
UUID(n) == "u" \o ToString(n)

\* a number that JSON.parse reads from a body such as 1e400
Infinity == 1000000
\* how JSON.stringify writes a non-finite number (null)
Null == -1

ScoreKeys == {"investmentScore", "transportScore"}

\* object spread { ...a, ...b }: own properties of b override those of a
Spread(a, b) ==
    [k \in DOMAIN a \cup DOMAIN b |-> IF k \in DOMAIN b THEN b[k] ELSE a[k]]

\* JSON.parse(JSON.stringify(obj)) for one object: every property is kept,
\* a non-finite number comes back as null
JSONObject(obj) ==
    [k \in DOMAIN obj |->
        IF k \in ScoreKeys /\ obj[k] = Infinity THEN Null ELSE obj[k]]

\* JSON.stringify(projects, null, 2): the document written to the file
JSONstringify(projects) ==
    [i \in 1..Len(projects) |-> JSONObject(projects[i])]

\* the three sample records built by initializeSampleData
SampleProject(n, name, inv, tr, status, t) ==
    [id |-> UUID(n), name |-> name, industry |-> "Transport",
     investmentScore |-> inv, transportScore |-> tr, status |-> status,
     createdAt |-> t, updatedAt |-> t]

sampleProjects ==
    << SampleProject(1, "Smart mobility", 68, 8, "full", 0),
       SampleProject(2, "AI ticketing", 61, 5, "invest", 0),
       SampleProject(3, "Eco parking", 52, 7, "pilot", 0) >>

\* request bodies (bodyParser.json yields an object; no body yields {})
\*   {"status": "approved"}
\*   {"id": <the id drawn last>, "createdAt": <some time>,
\*    "transportScore": 1e400}
\* A client can name an id the service has already drawn, never one it is
\* going to draw.
Bodies ==
    { [status |-> "approved"],
      [id |-> UUID(nextUuid - 1), createdAt |-> 1,
       transportScore |-> Infinity] }

\* values of the :id route parameter (a non-empty path segment)
PathIds == {UUID(3), UUID(4), "missing"}

\* the file: ok = FALSE when it is absent or does not parse
NoFile == [ok |-> FALSE, doc |-> <<>>]

NoRequest ==
    [op |-> "none", id |-> "", body |-> <<>>, status |-> 0, resp |-> <<>>,
     save |-> "none", conc |-> FALSE, race |-> FALSE]

(* --------------------------- storage accessor -------------------------- *)

\* what existsSync + readFileSync + JSON.parse make of a file: its document,
\* or the fall-through value [] when the file is absent or does not parse
JSONparse(file) == IF file.ok THEN file.doc ELSE <<>>

\* a snapshot taken before the previous create was saved
readProjectsStale ==
    IF last.op = "create" /\ last.status = 201 /\ last.conc
    THEN SubSeq(JSONparse(disk), 1, Len(JSONparse(disk)) - 1)
    ELSE JSONparse(disk)

\* readProjects: loads the file as it is when the handler runs
readProjects == JSONparse(disk)

\* writeProjects(projects) under outcome w of fs.writeFileSync:
\*   "ok"        the file now holds the serialized collection; returns true
\*   "openfail"  opening failed, the file is untouched; returns false
\*   "writefail" the file was opened with flag 'w' (truncated) and the write
\*               failed, the file no longer parses; returns false
WriteOutcomes == {"ok", "openfail", "writefail"}

writeProjects(projects, w) ==
    CASE w = "ok"        -> [ok |-> TRUE, doc |-> JSONstringify(projects)]
      [] w = "openfail"  -> disk
      [] w = "writefail" -> NoFile

(* ------------------------------ handlers ------------------------------- *)

\* p.id === req.params.id
IdEq(p, id) == "id" \in DOMAIN p /\ p["id"] = id

\* projects.findIndex(p => p.id === id), and the position projects.find
\* returns: index of the first match, 0 (for -1 / undefined) if none
findIndex(projects, id) ==
    IF \E i \in 1..Len(projects) : IdEq(projects[i], id)
    THEN CHOOSE i \in 1..Len(projects) :
            /\ IdEq(projects[i], id)
            /\ \A j \in 1..(i-1) : ~IdEq(projects[j], id)
    ELSE 0

\* projects.filter(p => p.id !== id)
RECURSIVE filter(_, _)
filter(projects, id) ==
    IF projects = <<>> THEN <<>>
    ELSE IF IdEq(Head(projects), id) THEN filter(Tail(projects), id)
         ELSE <<Head(projects)>> \o filter(Tail(projects), id)

\* the record a create builds
newProject(uuid, body, t1, t2) ==
    Spread(Spread([id |-> uuid], body), [createdAt |-> t1, updatedAt |-> t2])

\* the existing record left out of the merge
mergedProjectReplaced(project, body, t) ==
    Spread(body, [updatedAt |-> t])

\* the record an update stores in place of the matched one
mergedProject(project, body, t) ==
    Spread(Spread(project, body), [updatedAt |-> t])

\* the not-found check left out
nothingDeletedUnchecked(projects, filteredProjects) == FALSE

\* projects.length === filteredProjects.length: nothing matched the id
nothingDeleted(projects, filteredProjects) ==
    Len(projects) = Len(filteredProjects)

Mutating == {"create", "update", "delete"}
OkMutation(r) == r.op \in Mutating /\ r.status \in {200, 201}

\* the clock readings a handler can take: the clock does not run backwards
\* and advances by at most one tick between two readings
Readings(t) == {u \in t..(t+1) : u <= MaxClock}

\* after startup: initializeSampleData found no records, drew three ids and
\* wrote the samples, or (its write failing) left no readable file
Init ==
    /\ disk \in {[ok |-> TRUE, doc |-> JSONstringify(sampleProjects)], NoFile}
    /\ now = 0
    /\ nextUuid = 4
    /\ last = NoRequest
    /\ nCreated = 0
    /\ nDeleted = 0
    /\ fromEmpty = (readProjects = <<>>)
    /\ failed = FALSE
    /\ lost = FALSE
    /\ writes = 0

\* res.status(status).json(resp); save is the outcome of the save step and
\* pending tells whether another request had been received and was waiting
\* while the handler ran (recorded for the mutating requests)
Respond(op, id, body, status, resp, save, pending) ==
    last' = [op |-> op, id |-> id, body |-> body, status |-> status,
             resp |-> resp, save |-> save, conc |-> pending,
             race |-> (OkMutation(last) /\ last.conc
                       /\ op \in Mutating /\ status \in {200, 201})]

\* the saved collection was computed from a snapshot that is not what the
\* file held when it was saved, while the previous request, handled when
\* this one was already waiting, had its change acknowledged
Discards(projects, w) ==
    OkMutation(last) /\ last.conc /\ w = "ok" /\ projects # JSONparse(disk)

\* GET /api/projects
List ==
      /\ Respond("list", "", <<>>, 200, JSONstringify(readProjects), "none",
                 FALSE)
      /\ UNCHANGED <<disk, now, nextUuid, nCreated, nDeleted, fromEmpty,
                     failed, lost, writes>>

\* GET /api/projects/:id
Get ==
    \E id \in PathIds :
      LET projects == readProjects
          i == findIndex(projects, id)
      IN /\ IF i = 0
            THEN Respond("get", id, <<>>, 404, [error |-> "not found"],
                         "none", FALSE)
            ELSE Respond("get", id, <<>>, 200, JSONObject(projects[i]),
                         "none", FALSE)
         /\ UNCHANGED <<disk, now, nextUuid, nCreated, nDeleted,
                        fromEmpty, failed, lost, writes>>

\* POST /api/projects
Create ==
    \E body \in Bodies, w \in WriteOutcomes, pending \in BOOLEAN :
    \E t1 \in Readings(now) : \E t2 \in Readings(t1) :
      LET projects == readProjects
          project == newProject(UUID(nextUuid), body, t1, t2)
          pushed == Append(projects, project)
      IN /\ writes < MaxWrites
         /\ writes' = writes + 1
         /\ nextUuid' = nextUuid + 1
         /\ now' = t2
         /\ disk' = writeProjects(pushed, w)
         /\ IF w = "ok"
            THEN Respond("create", "", body, 201, JSONObject(project), w,
                         pending)
            ELSE Respond("create", "", body, 500, [error |-> "save failed"],
                         w, pending)
         /\ nCreated' = IF w = "ok" THEN nCreated + 1 ELSE nCreated
         /\ failed' = (failed \/ w # "ok")
         /\ lost' = (lost \/ Discards(projects, w))
         /\ UNCHANGED <<nDeleted, fromEmpty>>

\* PUT /api/projects/:id
Update ==
    \E id \in PathIds, pending \in BOOLEAN :
      LET projects == readProjects
          projectIndex == findIndex(projects, id)
      IN IF projectIndex = 0
         THEN /\ Respond("update", id, <<>>, 404, [error |-> "not found"],
                         "none", pending)
              /\ UNCHANGED <<disk, now, nextUuid, nCreated, nDeleted,
                             fromEmpty, failed, lost, writes>>
         ELSE \E body \in Bodies, w \in WriteOutcomes, t \in Readings(now) :
              LET merged == mergedProject(projects[projectIndex], body, t)
                  updated == [projects EXCEPT ![projectIndex] = merged]
              IN /\ writes < MaxWrites
                 /\ writes' = writes + 1
                 /\ now' = t
                 /\ disk' = writeProjects(updated, w)
                 /\ IF w = "ok"
                    THEN Respond("update", id, body, 200, JSONObject(merged),
                                 w, pending)
                    ELSE Respond("update", id, body, 500,
                                 [error |-> "save failed"], w, pending)
                 /\ failed' = (failed \/ w # "ok")
                 /\ lost' = (lost \/ Discards(projects, w))
                 /\ UNCHANGED <<nextUuid, nCreated, nDeleted, fromEmpty>>

\* DELETE /api/projects/:id
Delete ==
    \E id \in PathIds, pending \in BOOLEAN :
      LET projects == readProjects
          filteredProjects == filter(projects, id)
      IN IF nothingDeleted(projects, filteredProjects)
         THEN /\ Respond("delete", id, <<>>, 404, [error |-> "not found"],
                         "none", pending)
              /\ UNCHANGED <<disk, now, nextUuid, nCreated, nDeleted,
                             fromEmpty, failed, lost, writes>>
         ELSE \E w \in WriteOutcomes :
              /\ disk' = writeProjects(filteredProjects, w)
              /\ IF w = "ok"
                 THEN Respond("delete", id, <<>>, 200,
                              [message |-> "deleted"], w, pending)
                 ELSE Respond("delete", id, <<>>, 500,
                              [error |-> "save failed"], w, pending)
              /\ nDeleted' = IF w = "ok" THEN nDeleted + 1 ELSE nDeleted
              /\ failed' = (failed \/ w # "ok")
              /\ lost' = (lost \/ Discards(projects, w))
              /\ UNCHANGED <<now, nextUuid, nCreated, fromEmpty, writes>>

Next == List \/ Get \/ Create \/ Update \/ Delete

Spec == Init /\ [][Next]_vars

(* ------------------------------ properties ----------------------------- *)

\* the persisted collection: what a load of the file yields
Persisted == JSONparse(disk)

Ids(projects) == {projects[i]["id"] : i \in 1..Len(projects)}

RemoveAt(projects, i) ==
    SubSeq(projects, 1, i - 1) \o SubSeq(projects, i + 1, Len(projects))

RECURSIVE IsSubseq(_, _)
IsSubseq(s, t) ==
    IF s = <<>> THEN TRUE
    ELSE IF t = <<>> THEN FALSE
    ELSE IF Head(s) = Head(t) THEN IsSubseq(Tail(s), Tail(t))
    ELSE IsSubseq(s, Tail(t))

\* C1: no two records of the persisted collection have the same id
C1_UniqueIds ==
    \A i, j \in 1..Len(Persisted) :
        i # j => Persisted[i]["id"] # Persisted[j]["id"]

\* C2: a create answered 201 returns a record whose id is non-empty and is
\* the id of no record that was in the collection before the request, and
\* whose createdAt equals its updatedAt
C2_CreateFreshId ==
    [][ (last'.op = "create" /\ last'.status = 201) =>
          /\ last'.resp["id"] # ""
          /\ last'.resp["id"] \notin Ids(Persisted)
          /\ last'.resp["createdAt"] = last'.resp["updatedAt"] ]_vars

\* C3: the record stored after a successful update by id has the same id and
\* the same createdAt as the record stored before it
C3_UpdateKeepsIdentity ==
    [][ (last'.op = "update" /\ last'.status = 200) =>
          LET i == findIndex(Persisted, last'.id)
          IN /\ Persisted'[i]["id"] = Persisted[i]["id"]
             /\ Persisted'[i]["createdAt"] = Persisted[i]["createdAt"] ]_vars

\* C4: a get with the id of the record a create just returned (no request
\* in between) answers 200 with a record equal to the one the create returned
C4_CreateThenGet ==
    [][ ( /\ last.op = "create" /\ last.status = 201
          /\ last'.op = "get" /\ last'.id = last.resp["id"] ) =>
          (last'.status = 200 /\ last'.resp = last.resp) ]_vars

\* C5: a successful delete removes exactly one record, all others staying in
\* their order, and a second delete of the same id then answers 404
C5_DeleteExactlyOne ==
    [][ /\ (last'.op = "delete" /\ last'.status = 200) =>
             /\ Len(Persisted') = Len(Persisted) - 1
             /\ \E i \in 1..Len(Persisted) :
                   /\ IdEq(Persisted[i], last'.id)
                   /\ Persisted' = RemoveAt(Persisted, i)
        /\ ( /\ last.op = "delete" /\ last.status = 200
             /\ last'.op = "delete" /\ last'.id = last.id ) =>
             last'.status = 404 ]_vars

\* C6: started on an empty collection, after N creates answered 201 and M
\* deletes answered 200 (and updates and reads, no save having failed) a
\* list returns exactly N - M records, in the order in which the surviving
\* records were created: a create appends, a delete and an update keep the
\* order of the records that stay
C6_ListCountAndOrder ==
    /\ [](( fromEmpty /\ ~failed /\ last.op = "list") =>
            Len(last.resp) = nCreated - nDeleted)
    /\ [][ (fromEmpty /\ ~failed') =>
             /\ (last'.op = "create" /\ last'.status = 201) =>
                   Persisted' = Append(Persisted, last'.resp)
             /\ (last'.op = "delete" /\ last'.status = 200) =>
                   IsSubseq(Persisted', Persisted)
             /\ (last'.op = "update" /\ last'.status = 200) =>
                   /\ Len(Persisted') = Len(Persisted)
                   /\ \A j \in 1..Len(Persisted) :
                         j # findIndex(Persisted, last'.id) =>
                            Persisted'[j] = Persisted[j] ]_vars

\* C7: get, update and delete by an id that no record of the collection has
\* answer 404 and leave the file as it was
C7_NotFoundNoWrite ==
    [][ ( /\ last'.op \in {"get", "update", "delete"}
          /\ last'.id \notin Ids(Persisted) ) =>
          (last'.status = 404 /\ disk' = disk) ]_vars

C7_Witness ==
    /\ last.op \in {"update", "delete"}
    /\ last.status = 404
    /\ Len(Persisted) > 0
    /\ last.id \notin Ids(Persisted)

\* what an update answered 200 whose body carries only status leaves alone
StatusOnlyFrame(old, new, i) ==
    /\ Len(new) = Len(old)
    /\ \A j \in 1..Len(old) : j # i => new[j] = old[j]
    /\ DOMAIN new[i] = DOMAIN old[i] \cup {"status"}
    /\ \A k \in DOMAIN new[i] \ {"status", "updatedAt"} :
          new[i][k] = old[i][k]
    /\ new[i]["status"] = last'.body["status"]

StatusOnlyUpdate ==
    /\ last'.op = "update" /\ last'.status = 200
    /\ DOMAIN last'.body = {"status"}

\* C8 (as claimed): such an update changes only status and updatedAt of the
\* matched record, and its updatedAt differs from the previous value
C8_StatusOnlyChangesUpdatedAt ==
    [][ StatusOnlyUpdate =>
          LET i == findIndex(Persisted, last'.id)
          IN /\ StatusOnlyFrame(Persisted, Persisted', i)
             /\ Persisted'[i]["updatedAt"] # Persisted[i]["updatedAt"] ]_vars

\* C8 (amended): such an update changes only status and updatedAt of the
\* matched record; updatedAt becomes the clock reading taken by the update,
\* which can be the value it already had
C8_StatusOnlyUpdate ==
    [][ StatusOnlyUpdate =>
          LET i == findIndex(Persisted, last'.id)
          IN /\ StatusOnlyFrame(Persisted, Persisted', i)
             /\ Persisted'[i]["updatedAt"] = now' ]_vars

C8_Witness ==
    /\ last.op = "update" /\ last.status = 200
    /\ DOMAIN last.body = {"status"}
    /\ Len(Persisted) >= 3
    /\ LET i == findIndex(Persisted, last.id)
       IN /\ i > 0
          /\ Persisted[i]["status"] = last.body["status"]
          /\ Persisted[i]["name"] = "Eco parking"
          /\ Persisted[i]["updatedAt"] > Persisted[i]["createdAt"]

\* C9: when the save step of a create, update or delete fails, the answer is
\* 500 and the persisted collection is the one from before the request
C9_FailedSaveChangesNothing ==
    [][ (last'.save \in {"openfail", "writefail"}) =>
          (last'.status = 500 /\ Persisted' = Persisted) ]_vars

\* the collection a successful mutating request leaves when its own change
\* is applied to the collection old
Applied(r, old) ==
    CASE r.op = "create" -> Append(old, r.resp)
      [] r.op = "update" ->
            [old EXCEPT ![findIndex(old, r.id)] = r.resp]
      [] r.op = "delete" -> filter(old, r.id)

====
